---- MODULE Spec2Model ----
(***************************************************************************)
(* A model of vendorize (main.go): the coordinator loop of main, the       *)
(* vendorize goroutines it and they spawn, the shared maps visited,        *)
(* rewrites and builtPackages, the shared counter packagesRemaining, the   *)
(* unbuffered result channel, and the part of the file system the tool     *)
(* reads and writes (source files, destination directories and files).     *)
(*                                                                         *)
(* Import paths are strings; they are modelled as sequences of one-letter  *)
(* strings so that strings.HasPrefix and dest + "/" + path are computed,   *)
(* not assumed.                                                            *)
(*                                                                         *)
(* The goroutines share visited, rewrites, builtPackages and               *)
(* packagesRemaining without synchronisation.  packagesRemaining++ and     *)
(* packagesRemaining-- are a load followed by a store, so updates can be   *)
(* lost; an access to a map that overlaps a write to the same map can end  *)
(* the process with the runtime's "concurrent map" fatal error.            *)
(***************************************************************************)
EXTENDS Integers, Sequences, FiniteSets, TLC

(* The most goroutines one run may start: cyclic import graphs can spawn   *)
(* without end, acyclic ones of the inputs below stay under this bound.    *)
MaxTasks == 4

----------------------------------------------------------------------------
(* Import paths *)

A == <<"a">>
B == <<"b">>
C == <<"c">>
D == <<"d">>
E == <<"e">>
Sub == <<"a", "/", "s">>      \* a package below the root
Bx == <<"b", "/", "x">>       \* a package below B
Fmt == <<"f">>                \* a package of GOROOT
Gone == <<"u">>               \* an import path no package is found for
CgoImport == <<"C">>          \* the pseudo import of cgo files
Vendor == <<"a", "/", "v">>   \* a destination prefix below the root
NoPath == << >>               \* the empty string

(* strings.HasPrefix(s, prefix) *)
HasPrefix(s, prefix) ==
    /\ Len(prefix) <= Len(s)
    /\ SubSeq(s, 1, Len(prefix)) = prefix

(* newPath := dest + "/" + path *)
NewPath(dest, path) == dest \o <<"/">> \o path

----------------------------------------------------------------------------
(* What go/build finds on the search path: one record per package that     *)
(* ctx.Import resolves.  A file has a role (the list of build.Package it   *)
(* is in) and the import paths of its import declarations.                 *)

File(role, imports) == [role |-> role, imports |-> imports]

Pkg(goroot, files) == [Goroot |-> goroot, files |-> files]

Leaf == Pkg(FALSE, <<File("go", {Fmt})>>)

Std == Pkg(TRUE, <<File("go", {})>>)

(* build.Package.Imports, .TestImports, .XTestImports *)
RoleImports(pkg, roles) ==
    UNION {pkg.files[i].imports : i \in {j \in DOMAIN pkg.files : pkg.files[j].role \in roles}}

PkgImports(pkg) == RoleImports(pkg, {"go", "cgo"})

PkgTestImports(pkg) == RoleImports(pkg, {"test"})

PkgXTestImports(pkg) == RoleImports(pkg, {"xtest"})

(* getAllImports: the union of the three import lists, as a set (the       *)
(* order of the result is that of a Go map iteration, which is arbitrary). *)
getAllImports(pkg) == PkgImports(pkg) \cup PkgTestImports(pkg) \cup PkgXTestImports(pkg)

RECURSIVE FilesOfRole(_, _, _)
FilesOfRole(pkg, role, i) ==
    IF i > Len(pkg.files) THEN << >>
    ELSE (IF pkg.files[i].role = role THEN <<i>> ELSE << >>) \o FilesOfRole(pkg, role, i + 1)

(* The order in which vendorize rewrites the files of a package:           *)
(* GoFiles, CgoFiles, TestGoFiles, XTestGoFiles.                           *)
RewriteOrder(pkg) ==
    FilesOfRole(pkg, "go", 1) \o FilesOfRole(pkg, "cgo", 1)
        \o FilesOfRole(pkg, "test", 1) \o FilesOfRole(pkg, "xtest", 1)

----------------------------------------------------------------------------
(* The inputs of a run: the flags -d, -f, -u and -b, the two positional    *)
(* arguments, the packages on the search path, the destination directories *)
(* that exist before the run, the destinations os.MkdirAll cannot create,  *)
(* the files copyFile cannot write and the files go/parser rejects.        *)

Flags(d, f, u, b) == [dry |-> d, forceUpdates |-> f, updateImports |-> u, b |-> b]

NoFlags == Flags(FALSE, FALSE, FALSE, << >>)

Input(flags, pkg, dst, pkgs, pre, nomk, nocp, bad) ==
    [flags |-> flags, pkgName |-> pkg, dest |-> dst, pkgs |-> pkgs,
     preexisting |-> pre, mkdirFails |-> nomk, copyFails |-> nocp, badParse |-> bad]

(* A imports B and C, B imports D, -b d *)
Scenario(d, u) ==
    Input(Flags(d, FALSE, u, <<D>>), A, Vendor,
          A :> Pkg(FALSE, <<File("go", {B, C, Fmt})>>)
          @@ B :> Pkg(FALSE, <<File("go", {D})>>)
          @@ C :> Leaf @@ D :> Leaf @@ Fmt :> Std,
          {}, {}, {}, {})

(* C is imported by A and by B; B has a cgo file *)
Shared(u) ==
    Input(Flags(FALSE, FALSE, u, << >>), A, Vendor,
          A :> Pkg(FALSE, <<File("go", {B}), File("test", {C})>>)
          @@ B :> Pkg(FALSE, <<File("cgo", {CgoImport, C})>>)
          @@ C :> Leaf @@ Fmt :> Std,
          {}, {}, {}, {})

(* a chain A, B, C; the destination of B exists before the run *)
Rerun(d, f) ==
    Input(Flags(d, f, TRUE, << >>), A, Vendor,
          A :> Pkg(FALSE, <<File("go", {B})>>)
          @@ B :> Pkg(FALSE, <<File("go", {C})>>)
          @@ C :> Leaf @@ Fmt :> Std,
          {B}, {}, {}, {})

(* a package below the root imports E, and itself in an external test *)
Below ==
    Input(Flags(FALSE, FALSE, TRUE, << >>), A, Vendor,
          A :> Pkg(FALSE, <<File("go", {Sub})>>)
          @@ Sub :> Pkg(FALSE, <<File("go", {E}), File("xtest", {Sub})>>)
          @@ E :> Leaf @@ Fmt :> Std,
          {}, {}, {}, {})

(* B imports a path that does not resolve; C cannot be created *)
Broken ==
    Input(NoFlags, A, Vendor,
          A :> Pkg(FALSE, <<File("go", {B, C})>>)
          @@ B :> Pkg(FALSE, <<File("go", {D, Gone})>>)
          @@ C :> Leaf @@ D :> Leaf @@ Fmt :> Std,
          {}, {C}, {}, {})

(* the first file of B does not parse *)
Unparsed ==
    Input(Flags(FALSE, FALSE, TRUE, << >>), A, Vendor,
          A :> Pkg(FALSE, <<File("go", {B})>>)
          @@ B :> Pkg(FALSE, <<File("go", {C}), File("test", {C})>>)
          @@ C :> Leaf @@ Fmt :> Std,
          {}, {}, {}, {<<B, 1>>})

(* B imports the root in a test file *)
Cycle ==
    Input(NoFlags, A, Vendor,
          A :> Pkg(FALSE, <<File("go", {B})>>)
          @@ B :> Pkg(FALSE, <<File("go", {Fmt}), File("test", {A})>>)
          @@ Fmt :> Std,
          {}, {}, {}, {})

(* B imports the package in its subdirectory x *)
Nested(d) ==
    Input(Flags(d, FALSE, FALSE, << >>), A, Vendor,
          A :> Pkg(FALSE, <<File("go", {B})>>)
          @@ B :> Pkg(FALSE, <<File("go", {Bx})>>)
          @@ Bx :> Leaf @@ Fmt :> Std,
          {}, {}, {}, {})

(* a chain A, B, C; the destination of B cannot be created *)
Failing ==
    Input(NoFlags, A, Vendor,
          A :> Pkg(FALSE, <<File("go", {B})>>)
          @@ B :> Pkg(FALSE, <<File("go", {C})>>)
          @@ C :> Leaf @@ Fmt :> Std,
          {}, {B}, {}, {})

(* the file of B cannot be written to the destination of B *)
Partial ==
    Input(NoFlags, A, Vendor,
          A :> Pkg(FALSE, <<File("go", {B})>>)
          @@ B :> Leaf @@ Fmt :> Std,
          {}, {}, {<<B, 1>>}, {})

(* B and C both import a package of GOROOT that A does not import *)
Twins ==
    Input(NoFlags, A, Vendor,
          A :> Pkg(FALSE, <<File("go", {B, C})>>)
          @@ B :> Leaf @@ C :> Leaf @@ Fmt :> Std,
          {}, {}, {}, {})

(* arguments main or the seed task rejects *)
NoName == Input(NoFlags, NoPath, Vendor, Fmt :> Std, {}, {}, {}, {})

NoDest == Input(NoFlags, A, NoPath, A :> Leaf @@ Fmt :> Std, {}, {}, {}, {})

StdRoot == Input(NoFlags, Fmt, Vendor, Fmt :> Std, {}, {}, {}, {})

GoneRoot == Input(NoFlags, Gone, Vendor, Fmt :> Std, {}, {}, {}, {})

Inputs ==
    <<Scenario(FALSE, FALSE), Scenario(FALSE, TRUE), Scenario(TRUE, TRUE),
      Shared(FALSE), Shared(TRUE),
      Rerun(FALSE, FALSE), Rerun(FALSE, TRUE), Rerun(TRUE, FALSE), Rerun(TRUE, TRUE),
      Below, Broken, Unparsed, Cycle, Nested(FALSE), Nested(TRUE), Twins, Failing, Partial,
      NoName, NoDest, StdRoot, GoneRoot>>

----------------------------------------------------------------------------
VARIABLES
    input,               \* which of Inputs this run is given
    pcMain,              \* where main is
    blacklistedPrefixes, \* package prefixes that should not be copied
    rewrites,            \* rewrites that have been performed
    visited,             \* packages that have already been visited
    packagesRemaining,   \* the shared counter of goroutines in progress
    held,                \* the value main loaded for packagesRemaining--
    tasks,               \* the vendorize goroutines, in the order they were started
    builtPackages,       \* the import paths the build cache holds
    dirs,                \* the destination directories that exist
    fs                   \* the files: name -> content

vars ==
    <<input, pcMain, blacklistedPrefixes,
      rewrites, visited, packagesRemaining, held, tasks, builtPackages, dirs, fs>>

In == Inputs[input]

dry == In.flags.dry

forceUpdates == In.flags.forceUpdates

updateImports == In.flags.updateImports

pkgName == In.pkgName

dest == In.dest

(* ctx.Import succeeds for these import paths *)
Resolves(path) == path \in DOMAIN In.pkgs

(* File names: a file of the package's own directory, of its destination   *)
(* directory, or the temporary file rewriteFile creates for it.            *)
SrcFile(path, i) == <<"src", path, i>>

DstFile(path, i) == <<"dst", path, i>>

TmpFile(path, i) == <<"tmp", path, i>>

(* A file's content: the import paths of its import declarations, and      *)
(* whether the rest is that of the source as it is now ("cur") or that of  *)
(* a copy an earlier run left ("old").                                     *)
Content(ver, imports) == [ver |-> ver, imports |-> imports]

InitialFiles ==
    LET names ==
            UNION {{SrcFile(p, i) : i \in DOMAIN In.pkgs[p].files} : p \in DOMAIN In.pkgs}
            \cup UNION {{DstFile(p, i) : i \in DOMAIN In.pkgs[p].files} :
                            p \in In.preexisting \cap DOMAIN In.pkgs}
    IN  [n \in names |->
            Content(IF n[1] = "src" THEN "cur" ELSE "old",
                    In.pkgs[n[2]].files[n[3]].imports)]

(* exists(filepath) for a destination directory *)
exists(path) == path \in dirs

(* The directories os.MkdirAll makes for the destination of path: the      *)
(* directory itself and every parent of it below the destination prefix.   *)
MkdirAll(path) ==
    {SubSeq(path, 1, k) : k \in {j \in 1..Len(path) : j = Len(path) \/ path[j + 1] = "/"}}

(* A vendorize goroutine: its argument, where it is, its result.err, the   *)
(* packages of pkgs the loop has yet to reach, the path it is at, the      *)
(* value loaded for packagesRemaining++, whether pkgDir is the             *)
(* destination, the position in the files to rewrite, the paths it called  *)
(* ctx.Import for, the paths it started a goroutine for, and what it has   *)
(* done so far.                                                            *)
NewTask(path) ==
    [path |-> path, pc |-> "start", err |-> "nil", pkgs |-> {}, cur |-> NoPath,
     ld |-> 0, toDest |-> FALSE, file |-> 1, looked |-> {}, issued |-> {},
     skipped |-> FALSE, copied |-> FALSE, recorded |-> FALSE, rewrote |-> {}]

Init ==
    /\ input \in DOMAIN Inputs
    /\ pcMain = "start"
    /\ blacklistedPrefixes = In.flags.b
    /\ rewrites = << >>
    /\ visited = {}
    /\ packagesRemaining = 0
    /\ held = 0
    /\ tasks = << >>
    /\ builtPackages = {}
    /\ dirs = UNION {MkdirAll(p) : p \in In.preexisting}
    /\ fs = InitialFiles

----------------------------------------------------------------------------
(* main *)

(* The process runs: main has neither returned nor died. *)
Running == pcMain \in {"test", "recv", "dec"}

(* main up to the loop: the argument checks (log.Fatal), the two prefixes  *)
(* appended to the blacklist, the maps, the seed increment and goroutine.  *)
MainStart ==
    /\ pcMain = "start"
    /\ IF pkgName = NoPath \/ dest = NoPath
       THEN /\ pcMain' = "fatal"
            /\ UNCHANGED <<blacklistedPrefixes, packagesRemaining, tasks>>
       ELSE /\ pcMain' = "test"
            /\ blacklistedPrefixes' = blacklistedPrefixes \o <<pkgName, dest>>
            /\ packagesRemaining' = packagesRemaining + 1
            /\ tasks' = <<NewTask(pkgName)>>
    /\ UNCHANGED <<input, rewrites, visited,
                   held, builtPackages, dirs, fs>>

(* for packagesRemaining > 0; after the loop main logs and returns, which  *)
(* ends every goroutine.                                                   *)
MainTest ==
    /\ pcMain = "test"
    /\ pcMain' = IF packagesRemaining > 0 THEN "recv" ELSE "done"
    /\ UNCHANGED <<input, blacklistedPrefixes,
                   rewrites, visited, packagesRemaining, held, tasks,
                   builtPackages, dirs, fs>>

(* r := <-ch with the task t that is sending; visited[r.path] = true; the  *)
(* load of packagesRemaining--.                                            *)
MainRecv(t) ==
    /\ pcMain = "recv"
    /\ tasks[t].pc = "send"
    /\ tasks' = [tasks EXCEPT ![t].pc = "done"]
    /\ visited' = visited \cup {tasks[t].path}
    /\ held' = packagesRemaining
    /\ pcMain' = "dec"
    /\ UNCHANGED <<input, blacklistedPrefixes,
                   rewrites, packagesRemaining, builtPackages, dirs, fs>>

(* the store of packagesRemaining-- *)
MainDec ==
    /\ pcMain = "dec"
    /\ packagesRemaining' = held - 1
    /\ pcMain' = "test"
    /\ UNCHANGED <<input, blacklistedPrefixes,
                   rewrites, visited, held, tasks, builtPackages, dirs, fs>>

----------------------------------------------------------------------------
(* vendorize *)

(* ignored without the loop over blacklistedPrefixes *)
ignored_NoPrefixes(path) == path \in DOMAIN rewrites

(* determines if the path contains an ignored prefix *)
ignored(path) ==
    \/ path \in DOMAIN rewrites
    \/ \E i \in DOMAIN blacklistedPrefixes : HasPrefix(path, blacklistedPrefixes[i])

(* The import paths vendorize builds for the package at path: all its      *)
(* imports but "C".                                                        *)
Built(path) == getAllImports(In.pkgs[path]) \ {CgoImport}

Finish(t, err) == [tasks EXCEPT ![t].err = err, ![t].pc = "send"]

(* The loop that builds the imports, from a cache held in builtPackages up *)
(* to the next call of ctx.Import: buildPackage returns the cached package *)
(* of every import it finds in the map and calls ctx.Import for the first  *)
(* it does not find (allImports is in the order of a map iteration); with  *)
(* every import built the task goes on to the loop over pkgs.              *)
BuildImports(task, cache) ==
    LET misses == Built(task.path) \ cache IN
    IF misses = {}
    THEN {[task EXCEPT !.pkgs = {imp \in Built(task.path) : ~In.pkgs[imp].Goroot},
                       !.cur = NoPath, !.pc = "loop"]}
    ELSE {[task EXCEPT !.cur = imp, !.pc = "import"] : imp \in misses}

(* vendorize once buildPackage(path) has returned rootPkg: the GOROOT      *)
(* check, then the loop that builds the imports.                           *)
AfterUnit(task, cache) ==
    IF In.pkgs[task.path].Goroot
    THEN {[task EXCEPT !.err = "goroot", !.cur = NoPath, !.pc = "send"]}
    ELSE BuildImports(task, cache)

(* The entry of vendorize: the visited check and buildPackage(path) up to  *)
(* its look into builtPackages; on a miss ctx.Import(path) is next.        *)
Start(t) ==
    LET path == tasks[t].path IN
    /\ Running
    /\ tasks[t].pc = "start"
    /\ IF path \in visited
       THEN tasks' = Finish(t, "visited")
       ELSE IF path \notin builtPackages
       THEN tasks' = [tasks EXCEPT ![t].cur = path, ![t].pc = "import"]
       ELSE \E n \in AfterUnit(tasks[t], builtPackages) : tasks' = [tasks EXCEPT ![t] = n]
    /\ UNCHANGED <<input, pcMain,
                   blacklistedPrefixes, rewrites, visited, packagesRemaining,
                   held, builtPackages, dirs, fs>>

(* The rest of buildPackage after a miss: ctx.Import(path, "", 0); an      *)
(* error is returned uncached and ends the task, a package is stored in    *)
(* builtPackages, and vendorize goes on to its next ctx.Import.            *)
Import(t) ==
    LET path == tasks[t].path
        imp == tasks[t].cur
        task == [tasks[t] EXCEPT !.looked = @ \cup {imp}]
    IN
    /\ Running
    /\ tasks[t].pc = "import"
    /\ IF ~Resolves(imp)
       THEN /\ tasks' = [tasks EXCEPT
                            ![t] = [task EXCEPT
                                        !.err = IF imp = path THEN "import" ELSE "import of",
                                        !.cur = NoPath, !.pc = "send"]]
            /\ UNCHANGED builtPackages
       ELSE /\ builtPackages' = builtPackages \cup {imp}
            /\ \E n \in (IF imp = path THEN AfterUnit(task, builtPackages')
                                       ELSE BuildImports(task, builtPackages')) :
                    tasks' = [tasks EXCEPT ![t] = n]
    /\ UNCHANGED <<input, pcMain,
                   blacklistedPrefixes, rewrites, visited, packagesRemaining,
                   held, dirs, fs>>

(* NextImport with no traversal of the imports of an ignored package *)
NextImport_SkipIgnored(t) ==
    /\ Running
    /\ tasks[t].pc = "loop"
    /\ tasks[t].pkgs # {}
    /\ \E imp \in tasks[t].pkgs :
        tasks' =
            IF imp # tasks[t].path /\ imp \notin visited /\ ~ignored(tasks[t].path)
            THEN [tasks EXCEPT ![t].pkgs = @ \ {imp}, ![t].cur = imp, ![t].pc = "load"]
            ELSE [tasks EXCEPT ![t].pkgs = @ \ {imp}]
    /\ UNCHANGED <<input, pcMain, blacklistedPrefixes, rewrites, visited,
                   packagesRemaining, held, builtPackages, dirs, fs>>

(* One round of "for _, pkg := range pkgs" up to the visited check: the    *)
(* next package (pkgs is in the order of a map iteration), the self-import *)
(* guard and !visited[pkg.ImportPath].                                     *)
NextImport(t) ==
    /\ Running
    /\ tasks[t].pc = "loop"
    /\ tasks[t].pkgs # {}
    /\ \E imp \in tasks[t].pkgs :
        tasks' =
            IF imp # tasks[t].path /\ imp \notin visited
            THEN [tasks EXCEPT ![t].pkgs = @ \ {imp}, ![t].cur = imp, ![t].pc = "load"]
            ELSE [tasks EXCEPT ![t].pkgs = @ \ {imp}]
    /\ UNCHANGED <<input, pcMain, blacklistedPrefixes, rewrites, visited,
                   packagesRemaining, held, builtPackages, dirs, fs>>

(* the load of packagesRemaining++ *)
Load(t) ==
    /\ Running
    /\ tasks[t].pc = "load"
    /\ tasks' = [tasks EXCEPT ![t].ld = packagesRemaining, ![t].pc = "spawn"]
    /\ UNCHANGED <<input, pcMain, blacklistedPrefixes, rewrites, visited,
                   packagesRemaining, held, builtPackages, dirs, fs>>

(* the store of packagesRemaining++ and go vendorize(pkg.ImportPath, ...) *)
Spawn(t) ==
    /\ Running
    /\ tasks[t].pc = "spawn"
    /\ Len(tasks) < MaxTasks
    /\ packagesRemaining' = tasks[t].ld + 1
    /\ tasks' = Append([tasks EXCEPT ![t].pc = "loop", ![t].cur = NoPath, ![t].ld = 0,
                                      ![t].issued = @ \cup {tasks[t].cur}],
                       NewTask(tasks[t].cur))
    /\ UNCHANGED <<input, pcMain,
                   blacklistedPrefixes, rewrites, visited, held, builtPackages,
                   dirs, fs>>

(* Where vendorize goes once the copy is settled: the rewrite loop when -u *)
(* is given and the package has files, else the final send.                *)
AfterCopy(path) ==
    IF updateImports /\ RewriteOrder(In.pkgs[path]) # << >> THEN "rewrite" ELSE "send"

(* Decide without the exists check: a package that is not ignored is       *)
(* always copied                                                           *)
Decide_NoExists(t) ==
    LET path == tasks[t].path IN
    /\ Running
    /\ tasks[t].pc = "loop"
    /\ tasks[t].pkgs = {}
    /\ tasks' =
        IF ignored(path)
        THEN [tasks EXCEPT ![t].pc = AfterCopy(path)]
        ELSE [tasks EXCEPT ![t].toDest = TRUE, ![t].pc = "copy"]
    /\ UNCHANGED <<input, pcMain,
                   blacklistedPrefixes, rewrites, visited, packagesRemaining,
                   held, builtPackages, dirs, fs>>

(* After the loop over pkgs: ignored(path), and when the package is not    *)
(* ignored exists(pkgDir) and the choice between copyDir and the           *)
(* "Ignored (preexisting)" result.                                         *)
Decide(t) ==
    LET path == tasks[t].path IN
    /\ Running
    /\ tasks[t].pc = "loop"
    /\ tasks[t].pkgs = {}
    /\ tasks' =
        IF ignored(path)
        THEN [tasks EXCEPT ![t].pc = AfterCopy(path)]
        ELSE IF forceUpdates \/ ~exists(path)
        THEN [tasks EXCEPT ![t].toDest = TRUE, ![t].pc = "copy"]
        ELSE [tasks EXCEPT ![t].toDest = TRUE, ![t].skipped = TRUE,
                           ![t].err = "preexisting", ![t].pc = "send"]
    /\ UNCHANGED <<input, pcMain,
                   blacklistedPrefixes, rewrites, visited, packagesRemaining,
                   held, builtPackages, dirs, fs>>

(* The files copyDir calls copyFile for: every file of the source          *)
(* directory whose destination does not exist, or every file with -f.      *)
CopiedFiles(path) ==
    {i \in DOMAIN In.pkgs[path].files :
        /\ SrcFile(path, i) \in DOMAIN fs
        /\ (DstFile(path, i) \notin DOMAIN fs \/ forceUpdates)}

(* The files copyFile writes: those it can open at the destination; the    *)
(* error it returns for the others is dropped by copyDir.                  *)
WrittenFiles(path) == {i \in CopiedFiles(path) : <<path, i>> \notin In.copyFails}

(* copyDir(pkgDir, rootPkg.Dir): os.MkdirAll and the walk, both skipped in *)
(* a dry run.                                                              *)
Copy(t) ==
    LET path == tasks[t].path IN
    /\ Running
    /\ tasks[t].pc = "copy"
    /\ IF dry
       THEN /\ tasks' = [tasks EXCEPT ![t].copied = TRUE, ![t].pc = "record"]
            /\ UNCHANGED <<dirs, fs>>
       ELSE IF path \in In.mkdirFails
       THEN /\ tasks' = Finish(t, "copy")
            /\ UNCHANGED <<dirs, fs>>
       ELSE /\ tasks' = [tasks EXCEPT ![t].copied = TRUE, ![t].pc = "record"]
            /\ dirs' = dirs \cup MkdirAll(path)
            /\ fs' = [n \in {DstFile(path, i) : i \in WrittenFiles(path)} |->
                        fs[SrcFile(path, n[3])]] @@ fs
    /\ UNCHANGED <<input, pcMain,
                   blacklistedPrefixes, rewrites, visited, packagesRemaining,
                   held, builtPackages>>

(* rewrites[path] = newPath *)
Record(t) ==
    LET path == tasks[t].path IN
    /\ Running
    /\ tasks[t].pc = "record"
    /\ rewrites' = (path :> NewPath(dest, path)) @@ rewrites
    /\ tasks' = [tasks EXCEPT ![t].recorded = TRUE, ![t].pc = AfterCopy(path)]
    /\ UNCHANGED <<input, pcMain,
                   blacklistedPrefixes, visited, packagesRemaining, held,
                   builtPackages, dirs, fs>>

(* rewriteFileImports: every import path that is a key of m is replaced by *)
(* its value.                                                              *)
rewriteFileImports(content, m) ==
    Content(content.ver,
            {IF imp \in DOMAIN m THEN m[imp] ELSE imp : imp \in content.imports})

(* Rewrite with the rename done before the error of rewriteFileImports is  *)
(* looked at: the temporary file replaces the target of a file that does   *)
(* not parse                                                               *)
Rewrite_RenameOnError(t) ==
    LET path == tasks[t].path
        order == RewriteOrder(In.pkgs[path])
        i == order[tasks[t].file]
        destFile == IF tasks[t].toDest THEN DstFile(path, i) ELSE SrcFile(path, i)
        next == [tasks EXCEPT ![t].file = @ + 1,
                              ![t].pc = IF tasks[t].file = Len(order) THEN "send" ELSE "rewrite"]
    IN
    /\ Running
    /\ tasks[t].pc = "rewrite"
    /\ IF DOMAIN rewrites = {} \/ dry
       THEN /\ tasks' = next
            /\ UNCHANGED fs
       ELSE IF <<path, i>> \in In.badParse
       THEN /\ tasks' = Finish(t, "rewrite")
            /\ fs' = (destFile :> Content("cur", {})) @@ fs
       ELSE /\ tasks' = [next EXCEPT ![t].rewrote = @ \cup {i}]
            /\ fs' = (destFile :> rewriteFileImports(fs[SrcFile(path, i)], rewrites)) @@ fs
    /\ UNCHANGED <<input, pcMain,
                   blacklistedPrefixes, rewrites, visited, packagesRemaining,
                   held, builtPackages, dirs>>

(* One round of the rewrite loop for the file at tasks[t].file: skipped    *)
(* while rewrites is empty; rewriteFile returns at once in a dry run, else *)
(* creates a temporary file, parses the file of the package's own          *)
(* directory and renames the temporary file to pkgDir/file.  A file that   *)
(* does not parse ends the task and leaves the temporary file.             *)
Rewrite(t) ==
    LET path == tasks[t].path
        order == RewriteOrder(In.pkgs[path])
        i == order[tasks[t].file]
        destFile == IF tasks[t].toDest THEN DstFile(path, i) ELSE SrcFile(path, i)
        next == [tasks EXCEPT ![t].file = @ + 1,
                              ![t].pc = IF tasks[t].file = Len(order) THEN "send" ELSE "rewrite"]
    IN
    /\ Running
    /\ tasks[t].pc = "rewrite"
    /\ IF DOMAIN rewrites = {} \/ dry
       THEN /\ tasks' = next
            /\ UNCHANGED fs
       ELSE IF <<path, i>> \in In.badParse
       THEN /\ tasks' = Finish(t, "rewrite")
            /\ fs' = (TmpFile(path, i) :> Content("cur", {})) @@ fs
       ELSE /\ tasks' = [next EXCEPT ![t].rewrote = @ \cup {i}]
            /\ fs' = (destFile :> rewriteFileImports(fs[SrcFile(path, i)], rewrites)) @@ fs
    /\ UNCHANGED <<input, pcMain,
                   blacklistedPrefixes, rewrites, visited, packagesRemaining,
                   held, builtPackages, dirs>>

----------------------------------------------------------------------------
(* The unsynchronised maps.  The Go runtime ends the process ("fatal       *)
(* error: concurrent map writes", "concurrent map read and map write")     *)
(* when an access to a map overlaps a write to it, which can happen        *)
(* whenever two goroutines are both about to access the map and one of     *)
(* them writes.                                                            *)

(* visited[path] at the entry of vendorize, visited[pkg.ImportPath] in the *)
(* loop over pkgs                                                          *)
ReadsVisited(t) ==
    \/ tasks[t].pc = "start"
    \/ tasks[t].pc = "loop" /\ \E imp \in tasks[t].pkgs : imp # tasks[t].path

(* rewrites[path] in ignored, m[path] in rewriteFileImports *)
ReadsRewrites(t) ==
    \/ tasks[t].pc = "loop" /\ tasks[t].pkgs = {}
    \/ /\ tasks[t].pc = "rewrite"
       /\ ~dry
       /\ DOMAIN rewrites # {}
       /\ LET i == RewriteOrder(In.pkgs[tasks[t].path])[tasks[t].file] IN
            /\ <<tasks[t].path, i>> \notin In.badParse
            /\ fs[SrcFile(tasks[t].path, i)].imports # {}

WritesRewrites(t) == tasks[t].pc = "record"

(* buildPackage(path) looks into builtPackages, and stores the package     *)
(* ctx.Import returns                                                      *)
ReadsBuilt(t) == tasks[t].pc = "start" /\ tasks[t].path \notin visited

WritesBuilt(t) == tasks[t].pc = "import" /\ Resolves(tasks[t].cur)

MapFault ==
    /\ Running
    /\ \/ /\ pcMain = "recv"
          /\ \E s, t \in DOMAIN tasks : tasks[s].pc = "send" /\ ReadsVisited(t)
       \/ \E s, t \in DOMAIN tasks :
            s # t /\ WritesRewrites(s) /\ (WritesRewrites(t) \/ ReadsRewrites(t))
       \/ \E s, t \in DOMAIN tasks :
            s # t /\ WritesBuilt(s) /\ (WritesBuilt(t) \/ ReadsBuilt(t))
    /\ pcMain' = "crashed"
    /\ UNCHANGED <<input, blacklistedPrefixes,
                   rewrites, visited, packagesRemaining, held, tasks,
                   builtPackages, dirs, fs>>

----------------------------------------------------------------------------
Next ==
    \/ MainStart
    \/ MainTest
    \/ \E t \in DOMAIN tasks : MainRecv(t)
    \/ MainDec
    \/ \E t \in DOMAIN tasks : Start(t)
    \/ \E t \in DOMAIN tasks : Import(t)
    \/ \E t \in DOMAIN tasks : NextImport(t)
    \/ \E t \in DOMAIN tasks : Load(t)
    \/ \E t \in DOMAIN tasks : Spawn(t)
    \/ \E t \in DOMAIN tasks : Decide(t)
    \/ \E t \in DOMAIN tasks : Copy(t)
    \/ \E t \in DOMAIN tasks : Record(t)
    \/ \E t \in DOMAIN tasks : Rewrite(t)
    \/ MapFault

Spec == Init /\ [][Next]_vars

----------------------------------------------------------------------------
(* What the claims speak of *)

(* A task is past the visited check: it went on to resolve its unit. *)
Processed(t) == tasks[t].pc # "start" /\ tasks[t].err # "visited"

(* The coordinator has received the task's result. *)
Received(t) == tasks[t].pc = "done"

(* An import path that resolves to a package outside GOROOT. *)
External(path) == Resolves(path) /\ ~In.pkgs[path].Goroot

(* The external packages reachable from the root through imports, test     *)
(* imports and external test imports, the root included.                   *)
RECURSIVE ReachFrom(_, _)
ReachFrom(seen, frontier) ==
    IF frontier \subseteq seen THEN seen
    ELSE ReachFrom(seen \cup frontier,
            UNION {{imp \in Built(p) : External(imp)} : p \in frontier \ seen})

Reachable == ReachFrom({}, {p \in {pkgName} : External(p)})

(* Every unit resolves: the root and every import of a reachable package   *)
(* is found, and the root is not of GOROOT.                                *)
AllResolve ==
    /\ External(pkgName)
    /\ \A p \in Reachable : \A imp \in Built(p) : Resolves(imp)

(* No package reaches itself through imports of other packages. *)
Acyclic ==
    \A p \in Reachable :
        p \notin ReachFrom({}, {imp \in Built(p) : imp # p /\ External(imp)})

(* C1: no identifier is processed twice: at most one task per identifier   *)
(* gets past the visited check to resolve, copy or rewrite that unit       *)
(* (stated for the acyclic import graphs, where it already fails).         *)
C1_AtMostOnce ==
    Acyclic =>
        \A s, t \in DOMAIN tasks :
            (s # t /\ tasks[s].path = tasks[t].path) => ~(Processed(s) /\ Processed(t))

(* C2: for an acyclic import graph in which every unit resolves, when the  *)
(* run terminates visited is exactly the set of external units reachable   *)
(* from the root, the root included.                                       *)
C2_ClosureComplete ==
    (pcMain = "done" /\ Acyclic /\ AllResolve) => visited = Reachable

(* The tasks issued whose result the coordinator has not received. *)
Pending == Cardinality({t \in DOMAIN tasks : ~Received(t)})

(* C3: while the process lives, packagesRemaining equals the number of     *)
(* tasks issued and not yet received (one more between a receive and the   *)
(* store of the decrement that follows it), and the coordinator loop exits *)
(* only when no issued task is still running or sending.                   *)
C3_PendingCounter ==
    pcMain # "crashed" =>
        /\ packagesRemaining = Pending + (IF pcMain = "dec" THEN 1 ELSE 0)
        /\ pcMain = "done" => Pending = 0

(* C4: for an acyclic import graph (here: one whose units all resolve) the *)
(* run terminates: the coordinator is never left waiting on the result     *)
(* channel with no task left to send, where it would wait forever.         *)
C4_Terminates ==
    (Acyclic /\ AllResolve /\ pcMain = "recv") => \E t \in DOMAIN tasks : ~Received(t)

(* The exclusion prefixes of the run: the -b prefixes, the root identifier *)
(* and the destination prefix.                                             *)
ExclusionPrefixes == {In.flags.b[i] : i \in DOMAIN In.flags.b} \cup {pkgName, dest}

(* The identifier matches an exclusion prefix, by a plain prefix test. *)
Excluded(path) ==
    \E prefix \in ExclusionPrefixes :
        /\ Len(prefix) <= Len(path)
        /\ \A i \in 1..Len(prefix) : path[i] = prefix[i]

PastIssue(t) ==
    /\ Processed(t)
    /\ tasks[t].err \notin {"import", "goroot", "import of"}
    /\ tasks[t].pc = "loop" => tasks[t].pkgs = {}
    /\ tasks[t].pc \notin {"import", "load", "spawn"}

(* The external imports of a unit other than the unit itself. *)
ExternalImports(path) == {imp \in Built(path) : External(imp) /\ imp # path}

C7_Scenario ==
    (pcMain = "done" /\ In = Scenario(dry, updateImports)) =>
        /\ visited = {A, B, C, D}
        /\ DOMAIN rewrites = {B, C}
        /\ rewrites[B] = <<"a", "/", "v", "/", "b">>
        /\ rewrites[C] = <<"a", "/", "v", "/", "c">>

(* C8: a task that finds its destination directory present without -f     *)
(* copies nothing, rewrites nothing, adds no key to rewrites and only      *)
(* reports the pre-existing skip; the files of a destination that was      *)
(* present before a run without -f stay as they were.                      *)
C8_NoOverwrite ==
    /\ \A t \in DOMAIN tasks :
        tasks[t].skipped =>
            /\ ~forceUpdates
            /\ ~tasks[t].copied /\ ~tasks[t].recorded /\ tasks[t].rewrote = {}
            /\ tasks[t].err = "preexisting"
            /\ tasks[t].pc \in {"send", "done"}
    /\ ~forceUpdates =>
        \A p \in In.preexisting :
            /\ p \notin DOMAIN rewrites
            /\ \A i \in DOMAIN In.pkgs[p].files :
                /\ DstFile(p, i) \in DOMAIN fs
                /\ fs[DstFile(p, i)] = InitialFiles[DstFile(p, i)]

(* In a run that writes (no -d) with -u and without -f, the task of a unit *)
(* whose destination was present has reported the skip, and a unit it      *)
(* imports has been copied.                                                *)
C8_Witness ==
    /\ ~dry /\ ~forceUpdates /\ updateImports
    /\ \E t \in DOMAIN tasks :
        /\ Received(t)
        /\ tasks[t].skipped
        /\ tasks[t].path \in In.preexisting
        /\ \E imp \in ExternalImports(tasks[t].path) : imp \in DOMAIN rewrites

(* The units a run is to copy, and the rewrites map it is to end with: the *)
(* reachable external units that match no exclusion prefix and whose       *)
(* destination is absent or forced.  Neither depends on -d.                *)
Planned ==
    {p \in Reachable : ~Excluded(p) /\ (forceUpdates \/ p \notin In.preexisting)}

PlannedRewrites == [p \in Planned |-> dest \o <<"/">> \o p]

(* C9: a dry run writes nothing to the file system, and a dry run and a    *)
(* real run of the same input end with the same visited set and the same   *)
(* rewrites map: those the input determines (read at the end of a run in   *)
(* which every task was received, for an acyclic graph whose units resolve *)
(* and whose destinations can be created).                                 *)
C9_DryRunEquivalence ==
    /\ dry => (fs = InitialFiles /\ dirs = UNION {MkdirAll(p) : p \in In.preexisting})
    /\ (pcMain = "done" /\ Pending = 0 /\ Acyclic /\ AllResolve /\ In.mkdirFails = {}) =>
            (visited = Reachable /\ rewrites = PlannedRewrites)

(* C10: with -u, when the run has ended and every task was received, no    *)
(* file of a copied unit still names a copied unit by its original         *)
(* identifier (for inputs whose units resolve and whose files parse).      *)
C10_ImportsUpdated ==
    (updateImports /\ ~dry /\ pcMain = "done" /\ Pending = 0
        /\ AllResolve /\ In.badParse = {}) =>
        \A p \in DOMAIN rewrites :
            \A i \in DOMAIN In.pkgs[p].files :
                DstFile(p, i) \in DOMAIN fs =>
                    fs[DstFile(p, i)].imports \cap DOMAIN rewrites = {}

(* The status the process ends with: main returns after the loop (0),      *)
(* log.Fatal (1), a fatal error of the runtime (2); -1 while it runs.      *)
ExitStatus ==
    CASE pcMain = "done" -> 0
      [] pcMain = "fatal" -> 1
      [] pcMain = "crashed" -> 2
      [] OTHER -> -1

(* The tasks that produced an error result that is a failure: the unit or  *)
(* an import of it did not resolve, the unit is of GOROOT, the copy or a   *)
(* rewrite failed ("already visited" and "Ignored (preexisting)" are error *)
(* results too, but report a skip).                                        *)
Errors ==
    {t \in DOMAIN tasks : tasks[t].err \in {"import", "goroot", "import of", "copy", "rewrite"}}

(* C11: when the coordinator loop has ended, the status of the run is zero *)
(* exactly when no task produced an error result, and non-zero when any    *)
(* task did.                                                               *)
C11_ExitStatus ==
    pcMain = "done" => (ExitStatus = 0 <=> Errors = {})

(* C12: when the root identifier is empty, the destination is empty, the   *)
(* root does not resolve or the root is a standard-library unit, the run   *)
(* aborts with a fatal error before any task is spawned: the pending       *)
(* counter is never incremented and no worker starts.                      *)
C12_FatalBeforeTraversal ==
    (pkgName = NoPath \/ dest = NoPath \/ ~External(pkgName)) =>
        /\ pcMain \in {"start", "fatal"}
        /\ tasks = << >>
        /\ packagesRemaining = 0

(* C13: in every reachable state every key of rewrites is a member of      *)
(* visited.                                                                *)
C13_RewritesSubsetVisited == DOMAIN rewrites \subseteq visited

(* C14: every step that changes visited or rewrites is the coordinator's   *)
(* receipt of a task's result; no worker writes either map.                *)
C14_SingleOwner ==
    [][(visited' # visited \/ rewrites' # rewrites) =>
            (pcMain = "recv" /\ pcMain' = "dec")]_vars

(* The calls of ctx.Import made for a path so far, and those in flight. *)
Lookups(path) == Cardinality({t \in DOMAIN tasks : path \in tasks[t].looked})

InFlight(path) ==
    Cardinality({t \in DOMAIN tasks : tasks[t].pc = "import" /\ tasks[t].cur = path})

(* C15: the external resolver is not invoked for an identifier while a     *)
(* resolution of it is in flight or cached: at most one lookup of a path   *)
(* is in flight, none is in flight for a cached path, and a path that      *)
(* resolves is looked up at most once in a run.                            *)
C15_SingleFlight ==
    \A path \in DOMAIN In.pkgs :
        /\ InFlight(path) <= 1
        /\ path \in builtPackages => InFlight(path) = 0
        /\ Lookups(path) <= 1

(* The task ended because its unit, or a direct import of it, did not      *)
(* resolve.                                                                *)
ResolutionFailed(t) == tasks[t].err \in {"import", "import of"}

(* What the task did for its unit: nothing issued, copied or rewritten. *)
Abandoned(t) ==
    /\ tasks[t].issued = {}
    /\ ~tasks[t].copied /\ ~tasks[t].recorded /\ ~tasks[t].toDest
    /\ tasks[t].rewrote = {}

(* C16: a task whose unit, or one of whose direct imports, does not        *)
(* resolve issues no child traversal and performs no copy or rewrite for   *)
(* the unit, and every other task issued still runs to completion and has  *)
(* its result received: the run of such a task does not end with a task    *)
(* left unreceived.                                                        *)
C16_FailureIsolation ==
    \A t \in DOMAIN tasks :
        ResolutionFailed(t) =>
            /\ Abandoned(t)
            /\ pcMain = "done" => \A s \in DOMAIN tasks : Received(s)

(* C17: when the run terminates every identifier a task was issued for is  *)
(* in visited, whichever way the task ended, and a task that finds its     *)
(* identifier in visited neither resolves nor copies it again.             *)
C17_VisitedOnEveryOutcome ==
    /\ pcMain = "done" => \A t \in DOMAIN tasks : tasks[t].path \in visited
    /\ \A t \in DOMAIN tasks :
        tasks[t].err = "visited" =>
            /\ tasks[t].path \in visited
            /\ tasks[t].looked = {}
            /\ Abandoned(t)

(* C18: no task other than the seed is ever issued for the root            *)
(* identifier, also when another unit imports the root.                    *)
C18_RootNotReentered ==
    \A t \in DOMAIN tasks :
        /\ tasks[t].path = pkgName => t = 1
        /\ pkgName \notin tasks[t].issued

(* The units that import themselves (in a normal, test or external test    *)
(* file).                                                                  *)
SelfImporting == {path \in Reachable : path \in Built(path)}

(* C19: a unit whose imports contain its own identifier completes its      *)
(* traversal without issuing a task for itself, its result is received at  *)
(* most once, and the run terminates: the coordinator is never left        *)
(* waiting for a result with no task left to send one.                     *)
C19_SelfImport ==
    \A path \in SelfImporting :
        /\ \A t \in DOMAIN tasks : tasks[t].path = path => path \notin tasks[t].issued
        /\ Cardinality({t \in DOMAIN tasks : tasks[t].path = path /\ Received(t)}) <= 1
        /\ pcMain = "recv" => \E t \in DOMAIN tasks : ~Received(t)

(* The task has reached the copy decision of its unit: it is past the loop *)
(* over pkgs and past ignored(path).                                       *)
Decided(t) == PastIssue(t) /\ tasks[t].pc # "loop"

(* The task's copy failed, or was skipped as pre-existing. *)
CopyFailedOrSkipped(t) == tasks[t].err \in {"copy", "preexisting"}

(* C20: a task decides on the copy of its unit, and copies, only after a   *)
(* traversal has been issued for every eligible import of the unit (every  *)
(* external import other than the unit itself, unless it was found in      *)
(* visited); and when the copy fails or is skipped as pre-existing, the    *)
(* child tasks, all issued by then, still complete: the run does not end   *)
(* with one of them left unreceived.                                       *)
C20_IssueBeforeCopy ==
    \A t \in DOMAIN tasks :
        /\ Decided(t) =>
            \A imp \in ExternalImports(tasks[t].path) :
                imp \in tasks[t].issued \/ imp \in visited
        /\ (CopyFailedOrSkipped(t) /\ pcMain = "done") =>
            \A s \in DOMAIN tasks : tasks[s].path \in tasks[t].issued => Received(s)

(* The copy of the unit is complete: its destination directory exists and  *)
(* holds every file of the unit.                                           *)
FullyCopied(path) ==
    /\ path \in dirs
    /\ \A i \in DOMAIN In.pkgs[path].files : DstFile(path, i) \in DOMAIN fs

(* C21: outside a dry run, a task whose tree copy failed (the destination  *)
(* directory could not be made, or a file could not be copied) reports a   *)
(* copy error and does not enter its unit in rewrites: every key of        *)
(* rewrites is a unit whose copy is complete.                              *)
C21_CopyFailureNotRecorded ==
    ~dry =>
        /\ \A t \in DOMAIN tasks : tasks[t].err = "copy" => ~tasks[t].recorded
        /\ \A t \in DOMAIN tasks :
            (tasks[t].copied /\ ~FullyCopied(tasks[t].path)) => tasks[t].err = "copy"
        /\ \A k \in DOMAIN rewrites : FullyCopied(k)

(* The task ended because rewriteFile failed for the file it was at. *)
RewriteFailed(t) == tasks[t].err = "rewrite"

(* The file whose rewrite the task is at, or failed at. *)
AtFile(t) == RewriteOrder(In.pkgs[tasks[t].path])[tasks[t].file]

(* The files of the unit that come after that file in the rewrite loop. *)
FilesAfter(t) ==
    LET order == RewriteOrder(In.pkgs[tasks[t].path]) IN
    {order[j] : j \in {k \in DOMAIN order : k > tasks[t].file}}

(* C22 as stated: when the rewrite of one file of a unit fails, the        *)
(* remaining files of the unit are still rewritten (read once the task has *)
(* sent its result).                                                       *)
C22_RewriteFailureLocal ==
    \A t \in DOMAIN tasks :
        RewriteFailed(t) => FilesAfter(t) \subseteq tasks[t].rewrote

(* C22 as amended: when the rewrite of one file of a unit fails, that      *)
(* file's target is left as it was before the rewrite (no file that does   *)
(* not parse ever has its imports changed, at the source or at the         *)
(* destination), the task reports the rewrite error and rewrites no        *)
(* further file of the unit, and the failing step changes no other task    *)
(* and none of rewrites, visited, the counter and the directories.         *)
C22_RewriteFailureAborts ==
    /\ [](/\ \A t \in DOMAIN tasks :
                RewriteFailed(t) =>
                    /\ tasks[t].pc \in {"send", "done"}
                    /\ <<tasks[t].path, AtFile(t)>> \in In.badParse
                    /\ tasks[t].rewrote \cap ({AtFile(t)} \cup FilesAfter(t)) = {}
          /\ \A f \in In.badParse :
                /\ fs[SrcFile(f[1], f[2])] = InitialFiles[SrcFile(f[1], f[2])]
                /\ DstFile(f[1], f[2]) \in DOMAIN fs =>
                        fs[DstFile(f[1], f[2])].imports = In.pkgs[f[1]].files[f[2]].imports)
    /\ [][\A t \in DOMAIN tasks :
            (t \in DOMAIN tasks' /\ ~RewriteFailed(t) /\ tasks'[t].err = "rewrite") =>
                /\ \A s \in DOMAIN tasks : s # t => tasks'[s] = tasks[s]
                /\ DOMAIN tasks' = DOMAIN tasks
                /\ UNCHANGED <<rewrites, visited, packagesRemaining, held, pcMain,
                               builtPackages, dirs>>]_vars

(* The rewrite of a file of a copied unit has failed, the file at the      *)
(* destination is the copy, and the task of another unit has since copied  *)
(* its unit and had its result received without an error.                  *)
C22_Witness ==
    \E t \in DOMAIN tasks :
        /\ RewriteFailed(t)
        /\ tasks[t].toDest
        /\ Received(t)
        /\ DstFile(tasks[t].path, AtFile(t)) \in DOMAIN fs
        /\ FilesAfter(t) # {}
        /\ \E s \in DOMAIN tasks :
            /\ tasks[s].path # tasks[t].path
            /\ tasks[s].copied /\ Received(s) /\ tasks[s].err = "nil"

(* C23: no file of the source directory of a unit that matches no          *)
(* exclusion prefix is written by the run: the task of such a unit         *)
(* rewrites files of the destination directory only, and the source files  *)
(* stay as they were.                                                      *)
C23_SourceUnchanged ==
    \A t \in DOMAIN tasks :
        ~Excluded(tasks[t].path) =>
            /\ tasks[t].rewrote # {} => tasks[t].toDest
            /\ Resolves(tasks[t].path) =>
                \A i \in DOMAIN In.pkgs[tasks[t].path].files :
                    fs[SrcFile(tasks[t].path, i)] = InitialFiles[SrcFile(tasks[t].path, i)]

----------------------------------------------------------------------------
(* The earlier, sequential vendorize: a recursive function that vendorizes *)
(* the imports of a package one after the other, then copies the package,  *)
(* rewrites its files and enters it in visited.  Its state here is the two *)
(* maps, the destination directories and whether an error was returned     *)
(* (main ends the run with log.Fatal on the first error).                  *)

SeqState(v, r, d, e) == [visited |-> v, rewrites |-> r, dirs |-> d, err |-> e]

SeqInit == SeqState({}, << >>, UNION {MkdirAll(p) : p \in In.preexisting}, FALSE)

(* ignored(path) with the blacklist main has built *)
SeqIgnored(path, st) ==
    \/ path \in DOMAIN st.rewrites
    \/ \E prefix \in ExclusionPrefixes : HasPrefix(path, prefix)

(* The end of vendorize, from "pkgDir := rootPkg.Dir": the copy unless the *)
(* package is ignored or its destination exists without -f, the rewrite    *)
(* loop with -u, visited[path] = true.                                     *)
SeqCopy(path, st) ==
    LET copies == ~SeqIgnored(path, st) /\ (forceUpdates \/ path \notin st.dirs)
        copied == [st EXCEPT !.rewrites = (path :> NewPath(dest, path)) @@ @,
                             !.dirs = IF dry THEN @ ELSE @ \cup MkdirAll(path)]
        after == IF copies THEN copied ELSE st
        parses == \A i \in DOMAIN In.pkgs[path].files : <<path, i>> \notin In.badParse
    IN
    IF st.err THEN st
    ELSE IF copies /\ ~dry /\ path \in In.mkdirFails THEN [st EXCEPT !.err = TRUE]
    ELSE IF updateImports /\ ~dry /\ DOMAIN after.rewrites # {} /\ ~parses
    THEN [after EXCEPT !.err = TRUE]
    ELSE [after EXCEPT !.visited = @ \cup {path}]

(* vendorize(path, dest) from each of the states sts: the states it can    *)
(* return in (the imports are visited in the order of a map iteration).    *)
RECURSIVE vendorize(_, _)
RECURSIVE SeqImports(_, _)
vendorize(path, st) ==
    IF st.err \/ path \in st.visited THEN {st}
    ELSE IF ~External(path) \/ \E imp \in Built(path) : ~Resolves(imp)
    THEN {[st EXCEPT !.err = TRUE]}
    ELSE {SeqCopy(path, s) :
            s \in SeqImports({imp \in Built(path) : External(imp) /\ imp # path}, {st})}

(* The loop "for _, pkg := range pkgs" of the sequential vendorize *)
SeqImports(pkgs, sts) ==
    IF pkgs = {} THEN sts
    ELSE UNION {SeqImports(pkgs \ {imp}, UNION {vendorize(imp, s) : s \in sts}) :
                    imp \in pkgs}

(* The states a run of the sequential version can end in. *)
SeqRun == vendorize(pkgName, SeqInit)

(* C24: for an acyclic import graph whose units all resolve, with no       *)
(* destination present before the run and no I/O failure, a run of the     *)
(* concurrent traversal ends with a visited set and a rewrites map that    *)
(* the sequential vendorize ends with (read at the end of a run in which   *)
(* every task was received).                                               *)
C24_RefinesSequential ==
    (pcMain = "done" /\ Pending = 0 /\ Acyclic /\ AllResolve
        /\ In.preexisting = {} /\ In.mkdirFails = {} /\ In.copyFails = {}
        /\ In.badParse = {}) =>
        \E st \in SeqRun : visited = st.visited /\ rewrites = st.rewrites

====
